---- MODULE Spec2Model ----
(***************************************************************************)
(* A model of simple_chess_game.py: the rule functions (move validation,   *)
(* check / game-over classification, castling, en passant, promotion, the  *)
(* castling-rights and en-passant trackers) and the game loop of main().   *)
(*                                                                         *)
(* A Position is <<row, col>>, both 0-based as in the source (row 0 is     *)
(* rank 8, col 0 is file a).  A Move is <<from, to>>.  A Board is a tuple  *)
(* of 8 rows, each a tuple of 8 one-character strings.  Python's None is   *)
(* the empty tuple.                                                        *)
(***************************************************************************)
EXTENDS Integers, Sequences, FiniteSets, TLC

(***************************************************************************)
(* chess_game_support: the module the source imports with                  *)
(* "from chess_game_support import *".  Its file is not part of src/; the  *)
(* definitions of this section follow sections 3, 4.1, 4.2 and 4.3 of the  *)
(* specification.                                                          *)
(***************************************************************************)
BOARD_SIZE == 8

EMPTY == "."

WHITE_PAWN == "P"

WHITE_ROOK == "R"

WHITE_KING == "K"

BLACK_PAWN == "p"

BLACK_ROOK == "r"

BLACK_KING == "k"

WHITE_PIECES == {"P", "N", "B", "R", "Q", "K"}

BLACK_PIECES == {"p", "n", "b", "r", "q", "k"}

None == <<>>

Coords == 0 .. (BOARD_SIZE - 1)

Positions == Coords \X Coords

Moves == Positions \X Positions

out_of_bounds(position) ==
    ~(position[1] \in Coords /\ position[2] \in Coords)

piece_at_position(position, board) == board[position[1] + 1][position[2] + 1]

Abs(x) == IF x < 0 THEN -x ELSE x

Sign(x) == IF x > 0 THEN 1 ELSE IF x < 0 THEN -1 ELSE 0

Max(x, y) == IF x > y THEN x ELSE y

\* Every square strictly between from and to, which lie on one rank, file or
\* diagonal, is empty: a ray stops at the first occupied square.
RayClear(from, to, board) ==
    LET dr == Sign(to[1] - from[1])
        dc == Sign(to[2] - from[2])
        n  == Max(Abs(to[1] - from[1]), Abs(to[2] - from[2]))
    IN  \A k \in 1 .. (n - 1) :
            piece_at_position(<<from[1] + k * dr, from[2] + k * dc>>, board) = EMPTY

\* to is a pseudo-legal destination of a pawn of the given side standing on from.
PawnReach(from, to, board, white) ==
    LET direction == IF white THEN -1 ELSE 1
        start     == IF white THEN BOARD_SIZE - 2 ELSE 1
        enemies   == IF white THEN BLACK_PIECES ELSE WHITE_PIECES
    IN  \/ /\ to = <<from[1] + direction, from[2]>>
           /\ piece_at_position(to, board) = EMPTY
        \/ /\ from[1] = start
           /\ to = <<from[1] + 2 * direction, from[2]>>
           /\ piece_at_position(<<from[1] + direction, from[2]>>, board) = EMPTY
           /\ piece_at_position(to, board) = EMPTY
        \/ /\ to[1] = from[1] + direction
           /\ Abs(to[2] - from[2]) = 1
           /\ piece_at_position(to, board) \in enemies

\* to is a pseudo-legal destination of the piece standing on from (section 4.2):
\* the piece's movement shape, blocking, and never a square of its own side.
\* Castling and en passant are not generated here.
Reaches(from, to, board) ==
    LET piece == piece_at_position(from, board)
        white == piece \in WHITE_PIECES
        own   == IF white THEN WHITE_PIECES ELSE BLACK_PIECES
        dr    == Abs(to[1] - from[1])
        dc    == Abs(to[2] - from[2])
    IN  /\ piece # EMPTY
        /\ to # from
        /\ piece_at_position(to, board) \notin own
        /\ CASE piece \in {"P", "p"} -> PawnReach(from, to, board, white)
             [] piece \in {"N", "n"} -> {dr, dc} = {1, 2}
             [] piece \in {"K", "k"} -> Max(dr, dc) = 1
             [] piece \in {"B", "b"} -> dr = dc /\ RayClear(from, to, board)
             [] piece \in {"R", "r"} -> (dr = 0 \/ dc = 0) /\ RayClear(from, to, board)
             [] piece \in {"Q", "q"} ->
                    (dr = dc \/ dr = 0 \/ dc = 0) /\ RayClear(from, to, board)

get_possible_moves(position, board) ==
    {to \in Positions : Reaches(position, to, board)}

\* Section 4.3: some enemy piece's pseudo-legal destinations contain the
\* square of the side's king.
is_in_check(board, whites_turn) ==
    LET king    == IF whites_turn THEN WHITE_KING ELSE BLACK_KING
        enemies == IF whites_turn THEN BLACK_PIECES ELSE WHITE_PIECES
    IN  \E kp \in Positions :
            /\ piece_at_position(kp, board) = king
            /\ \E p \in Positions :
                   /\ piece_at_position(p, board) \in enemies
                   /\ kp \in get_possible_moves(p, board)

(***************************************************************************)
(* simple_chess_game.py                                                    *)
(***************************************************************************)
initial_state ==
    << <<"r", "n", "b", "q", "k", "b", "n", "r">>,
       <<"p", "p", "p", "p", "p", "p", "p", "p">>,
       <<".", ".", ".", ".", ".", ".", ".", ".">>,
       <<".", ".", ".", ".", ".", ".", ".", ".">>,
       <<".", ".", ".", ".", ".", ".", ".", ".">>,
       <<".", ".", ".", ".", ".", ".", ".", ".">>,
       <<"P", "P", "P", "P", "P", "P", "P", "P">>,
       <<"R", "N", "B", "Q", "K", "B", "N", "R">> >>

\* board[row][:col] + character + board[row][col + 1:] in the row of the
\* position, every other row as it is.
change_position(board, position, character) ==
    [row_num \in 1 .. BOARD_SIZE |->
        IF row_num - 1 = position[1]
        THEN SubSeq(board[row_num], 1, position[2])
                 \o <<character>>
                 \o SubSeq(board[row_num], position[2] + 2, BOARD_SIZE)
        ELSE board[row_num]]

clear_position(board, position) == change_position(board, position, EMPTY)

update_board(board, move) ==
    LET piece == board[move[1][1] + 1][move[1][2] + 1]
    IN  change_position(clear_position(board, move[1]), move[2], piece)

is_current_players_piece(piece, whites_turn) ==
    IF whites_turn THEN piece \in WHITE_PIECES ELSE piece \in BLACK_PIECES

\* is_move_valid without its last condition (the simulated move is not
\* looked at for check).
is_move_valid_unchecked(move, board, whites_turn) ==
    /\ ~(out_of_bounds(move[1]) /\ out_of_bounds(move[2]))
    /\ move[1] # move[2]
    /\ is_current_players_piece(piece_at_position(move[1], board), whites_turn)
    /\ \/ piece_at_position(move[2], board) = EMPTY
       \/ ~is_current_players_piece(piece_at_position(move[2], board), whites_turn)
    /\ move[2] \in get_possible_moves(move[1], board)

is_move_valid(move, board, whites_turn) ==
    /\ ~(out_of_bounds(move[1]) /\ out_of_bounds(move[2]))
    /\ move[1] # move[2]
    /\ is_current_players_piece(piece_at_position(move[1], board), whites_turn)
    /\ \/ piece_at_position(move[2], board) = EMPTY
       \/ ~is_current_players_piece(piece_at_position(move[2], board), whites_turn)
    /\ move[2] \in get_possible_moves(move[1], board)
    /\ ~is_in_check(update_board(board, move), whites_turn)

\* What a call of is_move_valid comes to, its conditions being evaluated
\* from left to right until one is false: "True" or "False" for the value
\* returned, "OutOfBounds" when piece_at_position is asked for a square off
\* the grid and fails (section 4.1).
is_move_valid_call(move, board, whites_turn) ==
    IF out_of_bounds(move[1]) /\ out_of_bounds(move[2]) THEN "False"
    ELSE IF move[1] = move[2] THEN "False"
    ELSE IF out_of_bounds(move[1]) THEN "OutOfBounds"
    ELSE IF ~is_current_players_piece(piece_at_position(move[1], board), whites_turn)
    THEN "False"
    ELSE IF out_of_bounds(move[2]) THEN "OutOfBounds"
    ELSE IF is_move_valid(move, board, whites_turn) THEN "True"
    ELSE "False"

can_move(board, whites_turn) ==
    \E row \in Coords : \E col \in Coords :
        LET position == <<row, col>>
        IN  /\ is_current_players_piece(piece_at_position(position, board), whites_turn)
            /\ \E move \in get_possible_moves(position, board) :
                   is_move_valid(<<position, move>>, board, whites_turn)

is_stalemate(board, whites_turn) ==
    ~is_in_check(board, whites_turn) /\ ~can_move(board, whites_turn)

\* check_game_over taking every position without a move for a checkmate.
check_game_over_all_mate(board, whites_turn) ==
    IF ~can_move(board, whites_turn)
    THEN [ret |-> TRUE, out |-> "Checkmate"]
    ELSE IF is_in_check(board, whites_turn)
         THEN [ret |-> FALSE,
               out |-> IF whites_turn THEN "White is in check" ELSE "Black is in check"]
         ELSE [ret |-> FALSE, out |-> ""]

\* ret is the value returned, out the message printed ("" when none is).
check_game_over(board, whites_turn) ==
    IF is_in_check(board, whites_turn)
    THEN IF can_move(board, whites_turn)
         THEN [ret |-> FALSE,
               out |-> IF whites_turn THEN "White is in check" ELSE "Black is in check"]
         ELSE [ret |-> TRUE, out |-> "Checkmate"]
    ELSE IF is_stalemate(board, whites_turn)
         THEN [ret |-> TRUE, out |-> "Stalemate"]
         ELSE [ret |-> FALSE, out |-> ""]

\* The answers typed at the promotion prompt are read until one of them is a
\* legal piece: the first answer in ('q', 'n', 'r', 'b') is the one used.
RECURSIVE read_promotion(_)
read_promotion(answers) ==
    IF Head(answers) \in {"q", "n", "r", "b"}
    THEN Head(answers)
    ELSE read_promotion(Tail(answers))

\* str.upper() on the four promotion letters.
upper(promotion) ==
    CASE promotion = "q" -> "Q"
      [] promotion = "n" -> "N"
      [] promotion = "r" -> "R"
      [] promotion = "b" -> "B"

\* The columns of the mover's farthest row that hold a pawn of the mover: the
\* loop over col stops at the first of them.
promotion_cols(board, whites_turn) ==
    LET row  == IF whites_turn THEN 0 ELSE 7
        pawn == IF whites_turn THEN WHITE_PAWN ELSE BLACK_PAWN
    IN  {col \in Coords : piece_at_position(<<row, col>>, board) = pawn}

\* attempt_promotion looking for the pawn on the mover's own first row.
attempt_promotion_home_row(board, whites_turn, answers) ==
    LET row  == IF whites_turn THEN 7 ELSE 0
        pawn == IF whites_turn THEN WHITE_PAWN ELSE BLACK_PAWN
        cols == {col \in Coords : piece_at_position(<<row, col>>, board) = pawn}
    IN  IF cols = {}
        THEN board
        ELSE LET col       == CHOOSE c \in cols : \A d \in cols : c <= d
                 promotion == read_promotion(answers)
             IN  change_position(board, <<row, col>>,
                     IF whites_turn THEN upper(promotion) ELSE promotion)

\* attempt_promotion falling back on a queen when the first answer is not a
\* legal piece.
attempt_promotion_default(board, whites_turn, answers) ==
    LET row  == IF whites_turn THEN 0 ELSE 7
        cols == promotion_cols(board, whites_turn)
    IN  IF cols = {}
        THEN board
        ELSE LET col       == CHOOSE c \in cols : \A d \in cols : c <= d
                 promotion == IF Head(answers) \in {"q", "n", "r", "b"}
                              THEN Head(answers)
                              ELSE "q"
             IN  change_position(board, <<row, col>>,
                     IF whites_turn THEN upper(promotion) ELSE promotion)

attempt_promotion(board, whites_turn, answers) ==
    LET row  == IF whites_turn THEN 0 ELSE 7
        cols == promotion_cols(board, whites_turn)
    IN  IF cols = {}
        THEN board
        ELSE LET col       == CHOOSE c \in cols : \A d \in cols : c <= d
                 promotion == read_promotion(answers)
             IN  change_position(board, <<row, col>>,
                     IF whites_turn THEN upper(promotion) ELSE promotion)

legal_castle_move ==
    { <<<<7, 4>>, <<7, 6>>>>,
      <<<<7, 4>>, <<7, 2>>>>,
      <<<<0, 4>>, <<0, 6>>>>,
      <<<<0, 4>>, <<0, 2>>>> }

\* is_valid_castle_attempt with the loop over the squares beginning at the
\* first square the king moves to.
is_valid_castle_attempt_from_next(move, board, whites_turn, castling_info) ==
    LET from_position == move[1]
        to_position   == move[2]
        king  == IF whites_turn THEN WHITE_KING ELSE BLACK_KING
        rook  == IF whites_turn THEN WHITE_ROOK ELSE BLACK_ROOK
        right == from_position[2] < to_position[2]
        rook_position == IF right THEN <<from_position[1], 7>> ELSE <<from_position[1], 0>>
        direction     == IF right THEN 1 ELSE -1
        squares       == IF right THEN 4 ELSE 5
        rook_moved    == IF right THEN castling_info[3] ELSE castling_info[1]
        no_pieces_between ==
            IF right
            THEN /\ piece_at_position(<<from_position[1], from_position[2] + 1>>, board) = EMPTY
                 /\ piece_at_position(<<from_position[1], from_position[2] + 2>>, board) = EMPTY
            ELSE /\ piece_at_position(<<from_position[1], from_position[2] - 1>>, board) = EMPTY
                 /\ piece_at_position(<<from_position[1], from_position[2] - 2>>, board) = EMPTY
                 /\ piece_at_position(<<from_position[1], from_position[2] - 3>>, board) = EMPTY
    IN  /\ piece_at_position(from_position, board) = king
        /\ move \in legal_castle_move
        /\ ~castling_info[2]
        /\ piece_at_position(rook_position, board) = rook
        /\ ~rook_moved
        /\ no_pieces_between
        /\ \A i \in 1 .. (squares - 1) :
               LET move_to_square ==
                       <<from_position,
                         <<from_position[1], from_position[2] + i * direction>>>>
               IN  ~is_in_check(update_board(board, move_to_square), whites_turn)

\* castling_info is <<left rook moved, king moved, right rook moved>>.
\* ("is EMPTY" compares one-character strings, which CPython keeps unique:
\* it decides as == does.)
is_valid_castle_attempt(move, board, whites_turn, castling_info) ==
    LET from_position == move[1]
        to_position   == move[2]
        king  == IF whites_turn THEN WHITE_KING ELSE BLACK_KING
        rook  == IF whites_turn THEN WHITE_ROOK ELSE BLACK_ROOK
        right == from_position[2] < to_position[2]
        rook_position == IF right THEN <<from_position[1], 7>> ELSE <<from_position[1], 0>>
        direction     == IF right THEN 1 ELSE -1
        squares       == IF right THEN 4 ELSE 5
        rook_moved    == IF right THEN castling_info[3] ELSE castling_info[1]
        no_pieces_between ==
            IF right
            THEN /\ piece_at_position(<<from_position[1], from_position[2] + 1>>, board) = EMPTY
                 /\ piece_at_position(<<from_position[1], from_position[2] + 2>>, board) = EMPTY
            ELSE /\ piece_at_position(<<from_position[1], from_position[2] - 1>>, board) = EMPTY
                 /\ piece_at_position(<<from_position[1], from_position[2] - 2>>, board) = EMPTY
                 /\ piece_at_position(<<from_position[1], from_position[2] - 3>>, board) = EMPTY
    IN  /\ piece_at_position(from_position, board) = king
        /\ move \in legal_castle_move
        /\ ~castling_info[2]
        /\ piece_at_position(rook_position, board) = rook
        /\ ~rook_moved
        /\ no_pieces_between
        /\ \A i \in 0 .. (squares - 1) :
               LET move_to_square ==
                       <<from_position,
                         <<from_position[1], from_position[2] + i * direction>>>>
               IN  ~is_in_check(update_board(board, move_to_square), whites_turn)

\* perform_castling taking the rook of the king's wing whatever the wing.
perform_castling_kingside(move, board) ==
    LET kings_row  == move[2][1]
        rooks_move == <<<<kings_row, 7>>, <<kings_row, 5>>>>
    IN  update_board(update_board(board, move), rooks_move)

perform_castling(move, board) ==
    LET kings_row     == move[2][1]
        kings_end_col == move[2][2]
        rooks_move    == IF kings_end_col = 6
                         THEN <<<<kings_row, 7>>, <<kings_row, 5>>>>
                         ELSE <<<<kings_row, 0>>, <<kings_row, 3>>>>
    IN  update_board(update_board(board, move), rooks_move)

is_valid_en_passant(move, board, whites_turn, en_passant_position) ==
    LET from_position == move[1]
        to_position   == move[2]
        direction  == IF whites_turn THEN -1 ELSE 1
        self_pawn  == IF whites_turn THEN WHITE_PAWN ELSE BLACK_PAWN
        other_pawn == IF whites_turn THEN BLACK_PAWN ELSE WHITE_PAWN
        should_start_at_row == IF whites_turn THEN 3 ELSE 4
    IN  /\ en_passant_position # None
        /\ en_passant_position = move[2]
        /\ to_position[1] = from_position[1] + direction
        /\ from_position[1] = should_start_at_row
        /\ piece_at_position(from_position, board) = self_pawn
        /\ piece_at_position(<<from_position[1], to_position[2]>>, board) = other_pawn

\* perform_en_passant leaving the captured pawn where it is.
perform_en_passant_keeping(move, board, whites_turn) ==
    update_board(board, move)

perform_en_passant(move, board, whites_turn) ==
    LET other_pawn_position == <<move[1][1], move[2][2]>>
    IN  update_board(clear_position(board, other_pawn_position), move)

\* update_castling_info computing the flags from the move alone.
update_castling_info_fresh(move, whites_turn, castling_info) ==
    LET row == IF whites_turn THEN 7 ELSE 0
        rook_king_rook_position == << <<row, 0>>, <<row, 4>>, <<row, 7>> >>
    IN  [i \in 1 .. 3 |-> move[1] = rook_king_rook_position[i]]

update_castling_info(move, whites_turn, castling_info) ==
    LET row == IF whites_turn THEN 7 ELSE 0
        rook_king_rook_position == << <<row, 0>>, <<row, 4>>, <<row, 7>> >>
    IN  [i \in 1 .. 3 |->
            IF castling_info[i]
            THEN TRUE
            ELSE move[1] = rook_king_rook_position[i]]

\* update_en_passant_position with the rows of is_valid_en_passant (3 for
\* white, 4 for black).
update_en_passant_position_rows(move, board, whites_turn) ==
    LET from_position == move[1]
        to_position   == move[2]
        direction     == IF whites_turn THEN -1 ELSE 1
        pawn          == IF whites_turn THEN WHITE_PAWN ELSE BLACK_PAWN
        should_at_row == IF whites_turn THEN 3 ELSE 4
    IN  IF /\ piece_at_position(to_position, board) = pawn
           /\ to_position[1] = should_at_row
           /\ to_position[1] - from_position[1] = 2 * direction
        THEN <<from_position[1] + direction, from_position[2]>>
        ELSE None

update_en_passant_position(move, board, whites_turn) ==
    LET from_position == move[1]
        to_position   == move[2]
        direction     == IF whites_turn THEN -1 ELSE 1
        pawn          == IF whites_turn THEN WHITE_PAWN ELSE BLACK_PAWN
        should_at_row == IF whites_turn THEN 4 ELSE 3
    IN  IF /\ piece_at_position(to_position, board) = pawn
           /\ to_position[1] = should_at_row
           /\ to_position[1] - from_position[1] = 2 * direction
        THEN <<from_position[1] + direction, from_position[2]>>
        ELSE None

\* A well-formed move text "<file><rank> <file><rank>" is the tuple
\* <<file, rank, file, rank>>, a file one of the letters a..h and a rank one
\* of 1..8.  ord(letter) - ord('a'):
file_index == [a |-> 0, b |-> 1, c |-> 2, d |-> 3, e |-> 4, f |-> 5, g |-> 6, h |-> 7]

square_to_position(square) ==
    LET y == file_index[square[1]]
        x == BOARD_SIZE - square[2]
    IN  <<x, y>>

process_move(user_input) ==
    LET from_position == square_to_position(<<user_input[1], user_input[2]>>)
        to_position   == square_to_position(<<user_input[3], user_input[4]>>)
    IN  <<from_position, to_position>>

(***************************************************************************)
(* main(): the game state and the loop.                                    *)
(*                                                                         *)
(* pc is the place in the loop: "check" at the top of an iteration (the    *)
(* board is printed and check_game_over is called), "input" at the prompt  *)
(* for a move, "done" after the loop was left on a finished game and       *)
(* "quit" after it was left on a confirmed q.  move is the move of the     *)
(* iteration that just ended, None when it read none and once the next     *)
(* iteration has begun (the program overwrites it before it reads it).     *)
(*                                                                         *)
(* status, last, committed and moved record the run and are not variables  *)
(* of the program: status is what the last check_game_over call printed    *)
(* ("unknown" while the position is not classified yet), last the branch   *)
(* that move took ("none" with no move), committed the number of committed *)
(* moves, and moved the squares whose piece has made a move in this game.  *)
(***************************************************************************)
VARIABLES board, whites_turn, en_passant_position,
          castling_info_white, castling_info_black, move,
          pc, status, last, committed, moved

vars == <<board, whites_turn, en_passant_position,
          castling_info_white, castling_info_black, move,
          pc, status, last, committed, moved>>

game == <<board, whites_turn, en_passant_position,
          castling_info_white, castling_info_black>>

Init ==
    /\ board = initial_state
    /\ whites_turn = TRUE
    /\ en_passant_position = None
    /\ castling_info_white = <<FALSE, FALSE, FALSE>>
    /\ castling_info_black = <<FALSE, FALSE, FALSE>>
    /\ move = None
    /\ pc = "check"
    /\ status = "unknown"
    /\ last = "none"
    /\ committed = 0
    /\ moved = {}

\* The top of the loop: print_board, then check_game_over ends the loop or
\* lets it go on to the prompt.
CheckGameOver ==
    /\ pc = "check"
    /\ LET result == check_game_over(board, whites_turn)
       IN  /\ status' = result.out
           /\ pc' = IF result.ret THEN "done" ELSE "input"
    /\ move' = None
    /\ last' = "none"
    /\ UNCHANGED <<game, committed, moved>>

\* The longest game explored, in committed moves, and the most answers typed
\* at one promotion prompt.
MaxPly == 9

MaxAnswers == 2

\* What is typed at the promotion prompt: legal letters and illegal ones.
PromotionLetters == {"q", "n", "r", "b", "k", "Q"}

\* The answers given to one promotion prompt: the prompt is repeated until
\* an answer is legal, so the last answer read is legal and the ones before
\* it are not.
PromotionAnswers ==
    UNION {{answers \in [1 .. n -> PromotionLetters] :
                /\ answers[n] \in {"q", "n", "r", "b"}
                /\ \A i \in 1 .. (n - 1) : answers[i] \notin {"q", "n", "r", "b"}} :
           n \in 1 .. MaxAnswers}

\* The squares holding a piece that has moved, after the piece on the
\* origin of a_move went to its destination (whatever stood there is gone).
moved_after(squares, a_move) ==
    (squares \ {a_move[1], a_move[2]}) \cup {a_move[2]}

\* The rook's move of a castle: perform_castling's rooks_move.
rooks_move_of(a_move) ==
    IF a_move[2][2] = 6
    THEN <<<<a_move[2][1], 7>>, <<a_move[2][1], 5>>>>
    ELSE <<<<a_move[2][1], 0>>, <<a_move[2][1], 3>>>>

\* Reject letting the turn pass.
RejectFlipping(the_move) ==
    /\ move' = the_move
    /\ last' = "rejected"
    /\ pc' = "check"
    /\ status' = "unknown"
    /\ whites_turn' = ~whites_turn
    /\ UNCHANGED <<board, en_passant_position, castling_info_white,
                   castling_info_black, committed, moved>>

\* Reject forgetting the en-passant target.
RejectClearing(the_move) ==
    /\ move' = the_move
    /\ last' = "rejected"
    /\ pc' = "check"
    /\ status' = "unknown"
    /\ en_passant_position' = None
    /\ UNCHANGED <<board, whites_turn, castling_info_white,
                   castling_info_black, committed, moved>>

\* The else branch of the three checks: "Invalid move" is printed and the
\* loop continues.
Reject(the_move) ==
    /\ move' = the_move
    /\ last' = "rejected"
    /\ pc' = "check"
    /\ status' = "unknown"
    /\ UNCHANGED <<game, committed, moved>>

\* After one of the three checks accepted the move and its branch made the
\* board performed: the promotion (the prompt is answered with answers;
\* nothing is read from it when no pawn is promoted), the castling flags of
\* the mover, the en-passant target, and the turn passes.
Commit(the_move, branch, performed) ==
    LET castling_info == IF whites_turn THEN castling_info_white
                                        ELSE castling_info_black
        prompts == IF promotion_cols(performed, whites_turn) = {}
                   THEN {<<>>}
                   ELSE PromotionAnswers
    IN  \E answers \in prompts :
            LET promoted == attempt_promotion(performed, whites_turn, answers)
            IN  /\ board' = promoted
                /\ castling_info_white' =
                       IF whites_turn
                       THEN update_castling_info(the_move, whites_turn, castling_info)
                       ELSE castling_info_white
                /\ castling_info_black' =
                       IF whites_turn
                       THEN castling_info_black
                       ELSE update_castling_info(the_move, whites_turn, castling_info)
                /\ en_passant_position' =
                       update_en_passant_position(the_move, promoted, whites_turn)
                /\ whites_turn' = ~whites_turn
                /\ move' = the_move
                /\ last' = branch
                /\ pc' = "check"
                /\ status' = "unknown"
                /\ committed' = committed + 1
                /\ moved' =
                       CASE branch = "ordinary"   -> moved_after(moved, the_move)
                         [] branch = "en_passant" ->
                                moved_after(moved, the_move)
                                    \ {<<the_move[1][1], the_move[2][2]>>}
                         [] branch = "castle"     ->
                                moved_after(moved_after(moved, the_move),
                                            rooks_move_of(the_move))

\* Turn validating every castle attempt against one set of flags, white's.
TurnSharedFlags(user_input) ==
    /\ pc = "input"
    /\ LET the_move == process_move(user_input)
           castling_info == castling_info_white
       IN  IF is_move_valid(the_move, board, whites_turn)
           THEN Commit(the_move, "ordinary", update_board(board, the_move))
           ELSE IF is_valid_en_passant(the_move, board, whites_turn, en_passant_position)
           THEN Commit(the_move, "en_passant",
                       perform_en_passant(the_move, board, whites_turn))
           ELSE IF is_valid_castle_attempt(the_move, board, whites_turn, castling_info)
           THEN Commit(the_move, "castle", perform_castling(the_move, board))
           ELSE Reject(the_move)

\* One move attempt: a well-formed move text was typed at the prompt.  The
\* three legality checks are tried in the order of the source and the first
\* that accepts decides how the board changes.
Turn(user_input) ==
    /\ pc = "input"
    /\ LET the_move == process_move(user_input)
           castling_info == IF whites_turn THEN castling_info_white
                                           ELSE castling_info_black
       IN  IF is_move_valid(the_move, board, whites_turn)
           THEN Commit(the_move, "ordinary", update_board(board, the_move))
           ELSE IF is_valid_en_passant(the_move, board, whites_turn, en_passant_position)
           THEN Commit(the_move, "en_passant",
                       perform_en_passant(the_move, board, whites_turn))
           ELSE IF is_valid_castle_attempt(the_move, board, whites_turn, castling_info)
           THEN Commit(the_move, "castle", perform_castling(the_move, board))
           ELSE Reject(the_move)

\* What else can be typed at the prompt: h for the help text, q to quit
\* (confirmed with y, or not), or a text that is not a well-formed move.
\* None of them touches the game; all but a confirmed q continue the loop.
Command ==
    /\ pc = "input"
    /\ \E text \in {"h", "q", "other"} : \E confirmation \in {"y", "n"} :
           pc' = IF text = "q" /\ confirmation = "y" THEN "quit" ELSE "check"
    /\ status' = IF pc' = "quit" THEN status ELSE "unknown"
    /\ UNCHANGED <<game, move, last, committed, moved>>

(***************************************************************************)
(* The inputs.                                                             *)
(***************************************************************************)
Files == {"a", "b", "c", "d", "e", "f", "g", "h"}

Ranks == 1 .. BOARD_SIZE

\* The file letter of a column.
Files_of == [col \in Coords |-> <<"a", "b", "c", "d", "e", "f", "g", "h">>[col + 1]]

\* Every well-formed move text.
AllInputs == Files \X Ranks \X Files \X Ranks

\* The move texts tried from the initial position: a pawn's double step, an
\* en-passant capture and its way to promotion, an en-passant attempt from a
\* far file, kingside castling, and a knight's raid on f2 (from where it
\* attacks the rook's corner) and d3 (from where it gives check).
GameInputs ==
    { <<"a", 2, "a", 4>>, <<"a", 4, "a", 5>>, <<"a", 5, "b", 6>>,
      <<"b", 6, "a", 7>>, <<"a", 7, "b", 8>>, <<"a", 5, "f", 6>>,
      <<"g", 1, "f", 3>>, <<"e", 2, "e", 3>>, <<"f", 1, "e", 2>>,
      <<"e", 1, "g", 1>>,
      <<"b", 7, "b", 5>>, <<"f", 7, "f", 5>>,
      <<"g", 8, "f", 6>>, <<"f", 6, "g", 4>>, <<"g", 4, "f", 2>>,
      <<"f", 2, "d", 3>> }

\* A move attempt with one of the given texts, in a game of fewer than
\* bound committed moves.
Play(inputs, bound) ==
    /\ committed < bound
    /\ \E user_input \in inputs : Turn(user_input)

Next ==
    \/ CheckGameOver
    \/ Play(GameInputs, MaxPly)
    \/ Command

Spec == Init /\ [][Next]_vars

(***************************************************************************)
(* Positions to apply the rule functions to.  Each is a game state as the  *)
(* loop holds it at the top of an iteration: a board with both kings, the  *)
(* side that is not to move out of check, and castling flags that are      *)
(* false only for a king or rook still standing on its home square.        *)
(***************************************************************************)
\* The side of the corner region the endgame positions are drawn from, and
\* the number of ranks, counted from the castling side's home rank, the
\* extra piece of a castling position stands on.
CornerSize == 3

NearRanks == 3

\* The longest continuation explored from a drawn position.
MaxPlyFn == 1

\* The board holding pieces[position] on every position of its domain.
board_of(pieces) ==
    [row_num \in 1 .. BOARD_SIZE |->
        [col_num \in 1 .. BOARD_SIZE |->
            IF <<row_num - 1, col_num - 1>> \in DOMAIN pieces
            THEN pieces[<<row_num - 1, col_num - 1>>]
            ELSE EMPTY]]

\* The function that maps position p1 to piece c1, p2 to c2, ...
placed(pairs) ==
    [position \in {pair[1] : pair \in pairs} |->
        (CHOOSE pair \in pairs : pair[1] = position)[2]]

Corner == (0 .. (CornerSize - 1)) \X (0 .. (CornerSize - 1))

\* King and queen against a bare king in the corner a8, the bare king to
\* move: the positions in which it is mated, stalemated, checked or free.
EndgamePositions ==
    {[board |-> board_of(placed({<<wk, "K">>, <<wq, "Q">>, <<bk, "k">>})),
      whites_turn |-> FALSE,
      white |-> <<TRUE, TRUE, TRUE>>,
      black |-> <<TRUE, TRUE, TRUE>>,
      moved |-> {wk, wq, bk}] :
        <<wk, wq, bk>> \in
            {t \in Corner \X Corner \X Corner :
                t[1] # t[2] /\ t[1] # t[3] /\ t[2] # t[3]}}

\* The side to move has its king and both rooks on their home squares and
\* has moved none of them (or, with the flags of some, has moved a piece
\* that came back); the other side has its king at home and one more piece,
\* of either side, stands near the home rank of the side to move.
CastlingFlags ==
    {<<FALSE, FALSE, FALSE>>, <<TRUE, FALSE, FALSE>>,
     <<FALSE, TRUE, FALSE>>, <<FALSE, FALSE, TRUE>>}

CastlingPositions ==
    {[board |-> board_of(placed(
                    {<<<<home, 0>>, IF side THEN "R" ELSE "r">>,
                     <<<<home, 4>>, IF side THEN "K" ELSE "k">>,
                     <<<<home, 7>>, IF side THEN "R" ELSE "r">>,
                     <<<<7 - home, 4>>, IF side THEN "k" ELSE "K">>,
                     <<at, extra>>})),
      whites_turn |-> side,
      white |-> IF side THEN flags ELSE <<TRUE, TRUE, TRUE>>,
      black |-> IF side THEN <<TRUE, TRUE, TRUE>> ELSE flags,
      moved |-> {<<7 - home, 4>>, at}
                    \cup {<<home, <<0, 4, 7>>[i]>> : i \in {j \in 1 .. 3 : flags[j]}}] :
        <<side, home, flags, extra, at>> \in
            {t \in BOOLEAN \X {0, 7} \X CastlingFlags
                     \X {"q", "r", "b", "n", "Q", "R", "B", "N"} \X Positions :
                /\ t[2] = (IF t[1] THEN 7 ELSE 0)
                /\ Abs(t[5][1] - t[2]) < NearRanks
                /\ t[5] \notin {<<t[2], 0>>, <<t[2], 4>>, <<t[2], 7>>}}}

DrawnPositions ==
    {p \in EndgamePositions \cup CastlingPositions :
        ~is_in_check(p.board, ~p.whites_turn)}

InitFn ==
    \E p \in DrawnPositions :
        /\ board = p.board
        /\ whites_turn = p.whites_turn
        /\ en_passant_position = None
        /\ castling_info_white = p.white
        /\ castling_info_black = p.black
        /\ pc = "check"
        /\ status = "unknown"
        /\ last = "none"
        /\ committed = 0
        /\ move = None
        /\ moved = p.moved

\* The four castle attempts.
CastleInputs ==
    { <<"e", 1, "g", 1>>, <<"e", 1, "c", 1>>,
      <<"e", 8, "g", 8>>, <<"e", 8, "c", 8>> }

NextFn ==
    \/ CheckGameOver
    \/ Play(CastleInputs, MaxPlyFn)
    \/ Command

SpecFn == InitFn /\ [][NextFn]_vars

(***************************************************************************)
(* The claims.                                                             *)
(***************************************************************************)
\* C1: on every board a player is asked to move on, whatever the side and
\* the move, a move that is_move_valid accepts leaves, on the board
\* update_board makes of it, that side's king out of check.
C1_ValidMoveLeavesMoverSafe ==
    pc = "input" =>
        \A side \in BOOLEAN : \A a_move \in Moves :
            is_move_valid(a_move, board, side)
                => ~is_in_check(update_board(board, a_move), side)

\* An accepted ordinary move was committed, and the side now at the prompt
\* has both a move that is accepted and a pseudo-legal move that would leave
\* its own king in check.
C1_Witness ==
    /\ pc = "input"
    /\ committed > 0
    /\ \E a_move \in Moves : is_move_valid(a_move, board, whites_turn)
    /\ \E a_move \in Moves :
           /\ is_current_players_piece(piece_at_position(a_move[1], board), whites_turn)
           /\ a_move[2] \in get_possible_moves(a_move[1], board)
           /\ is_in_check(update_board(board, a_move), whites_turn)

\* C2: once check_game_over has classified the position of the side to
\* move, what it printed and returned is one of four outcomes, decided by
\* whether that side is in check and whether it can move: in check and can
\* move - "in check", the game goes on; in check and cannot move -
\* checkmate, over; not in check and cannot move - stalemate, over; neither -
\* nothing printed, the game goes on.  The game is over iff the side cannot
\* move.
C2_GameOverClassification ==
    pc \in {"input", "done"} =>
        LET in_check == is_in_check(board, whites_turn)
            movable  == can_move(board, whites_turn)
        IN  /\ (in_check /\ movable) =>
                /\ status = (IF whites_turn THEN "White is in check"
                                            ELSE "Black is in check")
                /\ pc = "input"
            /\ (in_check /\ ~movable) => (status = "Checkmate" /\ pc = "done")
            /\ (~in_check /\ ~movable) => (status = "Stalemate" /\ pc = "done")
            /\ (~in_check /\ movable) => (status = "" /\ pc = "input")
            /\ (pc = "done") <=> ~movable

\* A position classified as stalemate: the loop was left, the side to move
\* is not in check and has no move.
C2_Witness ==
    /\ pc = "done"
    /\ status = "Stalemate"
    /\ ~is_in_check(board, whites_turn)

\* Some legality check of the loop accepts a_move in the current state.
accepted(a_move) ==
    \/ is_move_valid(a_move, board, whites_turn)
    \/ is_valid_en_passant(a_move, board, whites_turn, en_passant_position)
    \/ is_valid_castle_attempt(a_move, board, whites_turn,
           IF whites_turn THEN castling_info_white ELSE castling_info_black)

\* A step of the loop in which a move was read at the prompt: move' is it.
Attempt == pc = "input" /\ move' # None

\* C3: the side to move flips, and one more move is committed, in exactly
\* the steps in which a move was read and one of the three checks accepted
\* it; a rejected attempt and every other step leave the side to move as it
\* is; so white is to move exactly when the number of committed moves is
\* even.
C3_TurnAlternates ==
    /\ [](whites_turn <=> (committed % 2 = 0))
    /\ [][IF Attempt /\ accepted(move')
          THEN whites_turn' = ~whites_turn /\ committed' = committed + 1
          ELSE whites_turn' = whites_turn /\ committed' = committed]_vars

\* White has just castled, as its fourth move, and black is to move.
C3_Witness ==
    /\ last = "castle"
    /\ committed = 7
    /\ whites_turn = FALSE

\* C4: a move attempt that fails is_move_valid, is_valid_en_passant and
\* is_valid_castle_attempt leaves the board, the side to move, both sides'
\* castling flags and the en-passant target as they were.
C4_RejectedAttemptChangesNothing ==
    [][(Attempt /\ ~accepted(move')) => UNCHANGED game]_vars

\* An attempt was rejected while an en-passant target was pending, and the
\* target is still there.
C4_Witness ==
    /\ last = "rejected"
    /\ move # None
    /\ en_passant_position # None

\* C5: update_castling_info returns no tuple in which a flag that was true
\* on input is false, and in the game no step makes a castling flag of
\* either side false that was true.
C5_CastlingFlagsMonotonic ==
    /\ \A a_move \in Moves : \A side \in BOOLEAN :
           \A info \in BOOLEAN \X BOOLEAN \X BOOLEAN : \A i \in 1 .. 3 :
               info[i] => update_castling_info(a_move, side, info)[i]
    /\ [][\A i \in 1 .. 3 :
              /\ castling_info_white[i] => castling_info_white'[i]
              /\ castling_info_black[i] => castling_info_black'[i]]_vars

\* White castled earlier (its king flag is set) and has just committed
\* another move, which does not start on the king's home square.
C5_Witness ==
    /\ castling_info_white[2]
    /\ last = "ordinary"
    /\ whites_turn = FALSE
    /\ move[1] # <<7, 4>>

\* C6: after every committed move the en-passant target is the square
\* jumped over if the piece moved was a pawn of the mover advancing two
\* squares on its file from its starting rank, and None otherwise.
C6_EnPassantTargetFollowsMove ==
    [][(Attempt /\ last' # "rejected") =>
          LET pawn      == IF whites_turn THEN WHITE_PAWN ELSE BLACK_PAWN
              start     == IF whites_turn THEN 6 ELSE 1
              direction == IF whites_turn THEN -1 ELSE 1
              double    ==
                  /\ piece_at_position(move'[1], board) = pawn
                  /\ move'[1][1] = start
                  /\ move'[2] = <<start + 2 * direction, move'[1][2]>>
          IN  en_passant_position' =
                  IF double THEN <<start + direction, move'[1][2]>> ELSE None]_vars

\* An en-passant capture was committed: the target it used is gone.
C6_Witness ==
    /\ last = "en_passant"
    /\ en_passant_position = None
    /\ pc = "check"

\* C7: is_valid_en_passant accepts a move exactly when the target is set
\* and is the move's destination, the origin holds the mover's pawn on row
\* 3 (white) or 4 (black), the destination is one row forward and one file
\* to the side, and an enemy pawn stands beside the origin on the
\* destination's file.
C7_EnPassantOnlyFromAdjacentFile ==
    pc = "input" =>
        \A a_move \in Moves :
            LET from_position == a_move[1]
                to_position   == a_move[2]
                forward == IF whites_turn THEN -1 ELSE 1
                own     == IF whites_turn THEN WHITE_PAWN ELSE BLACK_PAWN
                enemy   == IF whites_turn THEN BLACK_PAWN ELSE WHITE_PAWN
                rank    == IF whites_turn THEN 3 ELSE 4
            IN  is_valid_en_passant(a_move, board, whites_turn, en_passant_position)
                <=> /\ en_passant_position # None
                    /\ en_passant_position = to_position
                    /\ piece_at_position(from_position, board) = own
                    /\ from_position[1] = rank
                    /\ to_position[1] = from_position[1] + forward
                    /\ Abs(to_position[2] - from_position[2]) = 1
                    /\ piece_at_position(<<from_position[1], to_position[2]>>, board) = enemy

\* C8: at the prompt, for the side to move and either wing: with the king
\* at home and not moved, the wing's rook on its corner and not moved, the
\* squares between them empty, the king not in check, and the king not in
\* check on the square it passes nor on the square it lands on,
\* is_valid_castle_attempt accepts the canonical castle move.
C8_CastleAcceptedWhenPathIsSafe ==
    pc = "input" =>
        \A wing \in {-1, 1} :
            LET row  == IF whites_turn THEN 7 ELSE 0
                king == IF whites_turn THEN WHITE_KING ELSE BLACK_KING
                rook == IF whites_turn THEN WHITE_ROOK ELSE BLACK_ROOK
                info == IF whites_turn THEN castling_info_white
                                       ELSE castling_info_black
                corner  == IF wing = 1 THEN 7 ELSE 0
                between == IF wing = 1 THEN {5, 6} ELSE {1, 2, 3}
                castle  == <<<<row, 4>>, <<row, 4 + 2 * wing>>>>
            IN  (/\ piece_at_position(<<row, 4>>, board) = king
                 /\ ~info[2]
                 /\ piece_at_position(<<row, corner>>, board) = rook
                 /\ ~info[IF wing = 1 THEN 3 ELSE 1]
                 /\ \A col \in between : piece_at_position(<<row, col>>, board) = EMPTY
                 /\ ~is_in_check(board, whites_turn)
                 /\ \A step \in {1, 2} :
                        ~is_in_check(update_board(board,
                                         <<<<row, 4>>, <<row, 4 + step * wing>>>>),
                                     whites_turn))
                => is_valid_castle_attempt(castle, board, whites_turn, info)

\* C9: at the prompt, is_valid_castle_attempt accepts no move unless the
\* origin holds the mover's king, the move is a canonical castle move on the
\* mover's home rank, the squares between king and rook are empty, the king
\* is not in check, and it is in check neither on the square it passes nor
\* on the square it lands on.
C9_CastleNeverThroughCheck ==
    pc = "input" =>
        \A a_move \in Moves :
            LET row  == IF whites_turn THEN 7 ELSE 0
                king == IF whites_turn THEN WHITE_KING ELSE BLACK_KING
                info == IF whites_turn THEN castling_info_white
                                       ELSE castling_info_black
                wing == IF a_move[2][2] > a_move[1][2] THEN 1 ELSE -1
                between == IF wing = 1 THEN {5, 6} ELSE {1, 2, 3}
            IN  is_valid_castle_attempt(a_move, board, whites_turn, info)
                => /\ piece_at_position(a_move[1], board) = king
                   /\ a_move \in {<<<<row, 4>>, <<row, 6>>>>, <<<<row, 4>>, <<row, 2>>>>}
                   /\ \A col \in between : piece_at_position(<<row, col>>, board) = EMPTY
                   /\ ~is_in_check(board, whites_turn)
                   /\ \A step \in {1, 2} :
                          ~is_in_check(update_board(board,
                                           <<a_move[1], <<row, 4 + step * wing>>>>),
                                       whites_turn)

\* White's kingside castle was tried and rejected with nothing wrong but the
\* square the king passes, on which it would be in check.
C9_Witness ==
    /\ last = "rejected"
    /\ move = <<<<7, 4>>, <<7, 6>>>>
    /\ whites_turn
    /\ ~castling_info_white[2] /\ ~castling_info_white[3]
    /\ piece_at_position(<<7, 5>>, board) = EMPTY
    /\ piece_at_position(<<7, 6>>, board) = EMPTY
    /\ ~is_in_check(board, TRUE)
    /\ is_in_check(update_board(board, <<<<7, 4>>, <<7, 5>>>>), TRUE)

(***************************************************************************)
(* A longer game from the initial position, on few move texts: white's     *)
(* queen's rook leaves by a3 and h3 while a black knight takes the rook on *)
(* h1 and is taken there; white clears f1 and g1 and castles; black's      *)
(* other knight wanders.                                                   *)
(***************************************************************************)
MaxPlyLong == 17

LongInputs ==
    { <<"a", 2, "a", 4>>, <<"a", 1, "a", 3>>, <<"h", 2, "h", 4>>,
      <<"a", 3, "h", 3>>, <<"h", 3, "h", 1>>, <<"g", 1, "f", 3>>,
      <<"e", 2, "e", 3>>, <<"f", 1, "e", 2>>, <<"e", 1, "g", 1>>,
      <<"g", 8, "f", 6>>, <<"f", 6, "g", 4>>, <<"g", 4, "f", 2>>,
      <<"f", 2, "h", 1>>,
      <<"b", 8, "c", 6>>, <<"c", 6, "a", 5>>, <<"a", 5, "c", 4>>,
      <<"c", 4, "b", 6>> }

NextLong ==
    \/ CheckGameOver
    \/ Play(LongInputs, MaxPlyLong)
    \/ Command

SpecLong == Init /\ [][NextLong]_vars

\* C10: no castle is committed with a king that has made a move in this
\* game, nor with a rook (the one standing on the corner when the castle is
\* made) that has made a move in this game.
C10_CastleOnlyWithUnmovedPieces ==
    [][(Attempt /\ last' = "castle") =>
          /\ move'[1] \notin moved
          /\ rooks_move_of(move')[1] \notin moved]_vars

\* The board the accepting branch of the loop makes of a_move, before the
\* promotion.
performed(a_move) ==
    IF is_move_valid(a_move, board, whites_turn)
    THEN update_board(board, a_move)
    ELSE IF is_valid_en_passant(a_move, board, whites_turn, en_passant_position)
    THEN perform_en_passant(a_move, board, whites_turn)
    ELSE perform_castling(a_move, board)

\* C11: on the board of every move the loop accepts, attempt_promotion
\* returns the board unchanged, whatever is typed, when no pawn of the mover
\* stands on the mover's farthest row; and when one does, it returns that
\* board with this one square holding the mover's queen, knight, rook or
\* bishop named by the first answer among q, n, r, b, the answers before it
\* being passed over.
C11_PromotionByFirstLegalAnswer ==
    pc = "input" =>
        \A a_move \in Moves :
            accepted(a_move) =>
                LET before == performed(a_move)
                    row    == IF whites_turn THEN 0 ELSE 7
                    pawn   == IF whites_turn THEN WHITE_PAWN ELSE BLACK_PAWN
                    cols   == {col \in Coords : before[row + 1][col + 1] = pawn}
                    kinds  == IF whites_turn
                              THEN [q |-> "Q", n |-> "N", r |-> "R", b |-> "B"]
                              ELSE [q |-> "q", n |-> "n", r |-> "r", b |-> "b"]
                IN  \A answers \in PromotionAnswers \cup {<<>>} :
                        LET after == attempt_promotion(before, whites_turn, answers)
                        IN  IF cols = {}
                            THEN after = before
                            ELSE answers # <<>> =>
                                   LET first == CHOOSE i \in 1 .. Len(answers) :
                                                  /\ answers[i] \in {"q", "n", "r", "b"}
                                                  /\ \A j \in 1 .. (i - 1) :
                                                         answers[j] \notin {"q", "n", "r", "b"}
                                   IN  /\ Cardinality(cols) = 1
                                       /\ \A r \in Coords : \A c \in Coords :
                                              after[r + 1][c + 1] =
                                                  IF r = row /\ c \in cols
                                                  THEN kinds[answers[first]]
                                                  ELSE before[r + 1][c + 1]

\* White's pawn took on b8 and was made a knight.
C11_Witness ==
    /\ pc = "check"
    /\ last = "ordinary"
    /\ move = <<<<1, 0>>, <<0, 1>>>>
    /\ piece_at_position(<<0, 1>>, board) = "N"

(***************************************************************************)
(* A game from the initial position in which black's king's pawn, pinned   *)
(* on the king's file by white's queen, is offered an en-passant capture.  *)
(***************************************************************************)
MaxPlyPin == 9

PinInputs ==
    { <<"e", 2, "e", 4>>, <<"e", 4, "d", 5>>, <<"d", 1, "e", 2>>,
      <<"d", 2, "d", 4>>, <<"e", 2, "e", 8>>,
      <<"d", 7, "d", 5>>, <<"e", 7, "e", 5>>, <<"e", 5, "e", 4>>,
      <<"e", 4, "d", 3>> }

NextPin ==
    \/ CheckGameOver
    \/ Play(PinInputs, MaxPlyPin)
    \/ Command

SpecPin == Init /\ [][NextPin]_vars

\* C12: the board of every state of the game holds exactly one white king
\* and exactly one black king.
C12_OneKingEach ==
    \A king \in {WHITE_KING, BLACK_KING} :
        Cardinality({position \in Positions :
                         piece_at_position(position, board) = king}) = 1

\* C14: once a move has been committed, the side that made the last
\* committed move is not in check.
C14_MoverNeverLeftInCheck ==
    committed > 0 => ~is_in_check(board, ~whites_turn)

(***************************************************************************)
(* is_move_valid called on its own, on moves whose coordinates may lie off *)
(* the board.  pc is "call" before the call and "returned" after it, when  *)
(* status holds what came of it: "True" or "False" for the value returned, *)
(* "OutOfBounds" when piece_at_position was asked for a square off the     *)
(* grid and failed (section 4.1).                                          *)
(***************************************************************************)
Margin == 1

WideCoords == (0 - Margin) .. (BOARD_SIZE - 1 + Margin)

WidePositions == WideCoords \X WideCoords

InitCall ==
    /\ board = initial_state
    /\ whites_turn \in BOOLEAN
    /\ en_passant_position = None
    /\ castling_info_white = <<FALSE, FALSE, FALSE>>
    /\ castling_info_black = <<FALSE, FALSE, FALSE>>
    /\ move \in WidePositions \X WidePositions
    /\ pc = "call"
    /\ status = "unknown"
    /\ last = "none"
    /\ committed = 0
    /\ moved = {}

IsMoveValidCall ==
    /\ pc = "call"
    /\ status' = is_move_valid_call(move, board, whites_turn)
    /\ pc' = "returned"
    /\ UNCHANGED <<game, move, last, committed, moved>>

NextCall == IsMoveValidCall

SpecCall == InitCall /\ [][NextCall]_vars

\* C13: a call of is_move_valid on a move with an endpoint off the board,
\* or with equal endpoints, returns False.
C13_OffBoardMoveReturnsFalse ==
    (/\ pc = "returned"
     /\ \/ out_of_bounds(move[1])
        \/ out_of_bounds(move[2])
        \/ move[1] = move[2])
    => status = "False"

(***************************************************************************)
(* Positions right after a double step of a white pawn on the king's wing: *)
(* white has its king, a rook on a6 and the pawn, black its king and a     *)
(* pawn on its fourth rank, and black is to move with the en-passant       *)
(* target behind the white pawn.  Before the double step black was not in  *)
(* check, and white is not in check now.                                   *)
(***************************************************************************)
WingSize == 3

MaxPlyEp == 1

Wing == (BOARD_SIZE - WingSize) .. (BOARD_SIZE - 1)

EnPassantPositions ==
    {[board |-> board_of(placed({<<t[1], "K">>, <<<<2, 0>>, "R">>,
                                 <<<<4, t[3]>>, "P">>,
                                 <<t[2], "k">>, <<<<4, t[4]>>, "p">>})),
      before |-> board_of(placed({<<t[1], "K">>, <<<<2, 0>>, "R">>,
                                  <<<<6, t[3]>>, "P">>,
                                  <<t[2], "k">>, <<<<4, t[4]>>, "p">>})),
      target |-> <<5, t[3]>>,
      moved  |-> {t[1], <<2, 0>>, <<4, t[3]>>, t[2], <<4, t[4]>>}] :
        t \in {u \in ({2, 3} \X (Wing \cup {BOARD_SIZE - WingSize - 1}))
                         \X ({2, 3} \X Wing) \X Wing \X Wing :
                  u[1] # u[2] /\ u[3] # u[4]}}

InitEp ==
    \E p \in {q \in EnPassantPositions :
                  /\ ~is_in_check(q.before, FALSE)
                  /\ ~is_in_check(q.board, TRUE)} :
        /\ board = p.board
        /\ whites_turn = FALSE
        /\ en_passant_position = p.target
        /\ castling_info_white = <<TRUE, TRUE, TRUE>>
        /\ castling_info_black = <<TRUE, TRUE, TRUE>>
        /\ pc = "check"
        /\ status = "unknown"
        /\ last = "none"
        /\ committed = 0
        /\ move = None
        /\ moved = p.moved

\* Black's pawn moves from its fourth rank on the wing: advances and
\* captures, en passant among them.
EpInputs ==
    {<<Files_of[from_col], 4, Files_of[to_col], 3>> :
        <<from_col, to_col>> \in Wing \X Wing}

NextEp ==
    \/ CheckGameOver
    \/ Play(EpInputs, MaxPlyEp)
    \/ Command

SpecEp == InitEp /\ [][NextEp]_vars

\* C15: when the loop has ended on check_game_over, the side to move has
\* no move that is_move_valid, is_valid_en_passant (with the current target)
\* or is_valid_castle_attempt (with the side's flags) accepts.
C15_GameOverOnlyWithoutCommittableMove ==
    pc = "done" => \A a_move \in Moves : ~accepted(a_move)

\* C16: at the prompt, for every move is_valid_en_passant accepts,
\* perform_en_passant returns the board changed in exactly three squares:
\* the origin, which held the mover's pawn, is empty; the destination, which
\* was empty, holds the mover's pawn; and the square on the origin's row and
\* the destination's column, which held the enemy pawn, is empty.
C16_EnPassantChangesThreeSquares ==
    pc = "input" =>
        \A a_move \in Moves :
            is_valid_en_passant(a_move, board, whites_turn, en_passant_position) =>
                LET after    == perform_en_passant(a_move, board, whites_turn)
                    own      == IF whites_turn THEN WHITE_PAWN ELSE BLACK_PAWN
                    captured == <<a_move[1][1], a_move[2][2]>>
                    changed  == {position \in Positions :
                                     piece_at_position(position, after)
                                         # piece_at_position(position, board)}
                IN  /\ changed = {a_move[1], a_move[2], captured}
                    /\ Cardinality(changed) = 3
                    /\ piece_at_position(a_move[1], after) = EMPTY
                    /\ piece_at_position(a_move[2], after) = own
                    /\ piece_at_position(captured, after) = EMPTY

\* White's pawn on a5 has taken the pawn on b5 en passant.
C16_Witness ==
    /\ last = "en_passant"
    /\ move = <<<<3, 0>>, <<2, 1>>>>
    /\ piece_at_position(<<2, 1>>, board) = WHITE_PAWN
    /\ piece_at_position(<<3, 0>>, board) = EMPTY
    /\ piece_at_position(<<3, 1>>, board) = EMPTY

\* C17: at the prompt, for every move is_valid_castle_attempt accepts,
\* perform_castling returns the board changed in exactly four squares of the
\* mover's home row: the king's home square and the rook's corner are empty,
\* the king stands on column 6 and the rook on column 5 (kingside), or the
\* king on column 2 and the rook on column 3 (queenside); the two squares
\* they land on were empty.
C17_CastlingChangesFourSquares ==
    pc = "input" =>
        \A a_move \in Moves :
            is_valid_castle_attempt(a_move, board, whites_turn,
                IF whites_turn THEN castling_info_white ELSE castling_info_black) =>
                LET after  == perform_castling(a_move, board)
                    row    == IF whites_turn THEN 7 ELSE 0
                    king   == IF whites_turn THEN WHITE_KING ELSE BLACK_KING
                    rook   == IF whites_turn THEN WHITE_ROOK ELSE BLACK_ROOK
                    right  == a_move[2][2] = 6
                    corner == IF right THEN 7 ELSE 0
                    rook_col == IF right THEN 5 ELSE 3
                    king_col == IF right THEN 6 ELSE 2
                    changed  == {position \in Positions :
                                     piece_at_position(position, after)
                                         # piece_at_position(position, board)}
                IN  /\ changed = {<<row, 4>>, <<row, corner>>,
                                  <<row, rook_col>>, <<row, king_col>>}
                    /\ piece_at_position(<<row, 4>>, after) = EMPTY
                    /\ piece_at_position(<<row, corner>>, after) = EMPTY
                    /\ piece_at_position(<<row, king_col>>, after) = king
                    /\ piece_at_position(<<row, rook_col>>, after) = rook
                    /\ piece_at_position(<<row, king_col>>, board) = EMPTY
                    /\ piece_at_position(<<row, rook_col>>, board) = EMPTY

\* Black has castled queenside.
C17_Witness ==
    /\ last = "castle"
    /\ move = <<<<0, 4>>, <<0, 2>>>>
    /\ piece_at_position(<<0, 2>>, board) = BLACK_KING
    /\ piece_at_position(<<0, 3>>, board) = BLACK_ROOK
    /\ piece_at_position(<<0, 0>>, board) = EMPTY
    /\ piece_at_position(<<0, 1>>, board) = EMPTY
    /\ piece_at_position(<<0, 4>>, board) = EMPTY

(***************************************************************************)
(* A game from the initial position in which both sides run a rook's pawn  *)
(* to the farthest row: white's takes on b7 and a8, black's on g2 and h1.  *)
(***************************************************************************)
MaxPlyPromo == 10

PromoInputs ==
    { <<"a", 2, "a", 4>>, <<"a", 4, "a", 5>>, <<"a", 5, "a", 6>>,
      <<"a", 6, "b", 7>>, <<"b", 7, "a", 8>>,
      <<"h", 7, "h", 5>>, <<"h", 5, "h", 4>>, <<"h", 4, "h", 3>>,
      <<"h", 3, "g", 2>>, <<"g", 2, "h", 1>> }

NextPromo ==
    \/ CheckGameOver
    \/ Play(PromoInputs, MaxPlyPromo)
    \/ Command

SpecPromo == Init /\ [][NextPromo]_vars

\* C18: in no state of the game, at the prompt or when the position is
\* classified, does a white pawn stand on row 0 or a black pawn on row 7.
C18_NoPawnLeftOnFarthestRow ==
    \A col \in Coords :
        /\ piece_at_position(<<0, col>>, board) # WHITE_PAWN
        /\ piece_at_position(<<7, col>>, board) # BLACK_PAWN

\* Both pawns have arrived: white is asked for a move with a promoted white
\* piece on a8 and a promoted black piece on h1.
C18_Witness ==
    /\ pc = "input"
    /\ whites_turn
    /\ piece_at_position(<<0, 0>>, board) \in {"Q", "N", "R", "B"}
    /\ piece_at_position(<<7, 7>>, board) \in {"q", "n", "r", "b"}
    /\ committed = 10

\* C19: a move attempt of one side leaves the other side's castling flags
\* as they were, and is committed as a castle exactly when neither
\* is_move_valid nor is_valid_en_passant accepts it and
\* is_valid_castle_attempt accepts it with the flags of the side to move.
C19_CastlingFlagsPerSide ==
    [][Attempt =>
          LET own == IF whites_turn THEN castling_info_white
                                    ELSE castling_info_black
          IN  /\ whites_turn => castling_info_black' = castling_info_black
              /\ ~whites_turn => castling_info_white' = castling_info_white
              /\ last' = "castle"
                     <=> /\ ~is_move_valid(move', board, whites_turn)
                         /\ ~is_valid_en_passant(move', board, whites_turn,
                                                 en_passant_position)
                         /\ is_valid_castle_attempt(move', board, whites_turn, own)]_vars

\* Black has castled with none of its pieces moved, while white's three
\* flags are set.
C19_Witness ==
    /\ last = "castle"
    /\ whites_turn
    /\ castling_info_white = <<TRUE, TRUE, TRUE>>
    /\ castling_info_black = <<FALSE, TRUE, FALSE>>

====
